---- MODULE Spec2Model ----
(***************************************************************************)
(* Model of docker-tui.py: the DockerTUI application (container table,     *)
(* row-to-id mapping, filter, list/detail state) and the LogsView detail   *)
(* session with its two asyncio tasks.                                     *)
(*                                                                         *)
(* Execution model.  Everything in the program runs on one asyncio event   *)
(* loop.  A step of the model is one run of a coroutine or callback        *)
(* between two awaits, which nothing else can interleave.  A synchronous   *)
(* (blocking) runtime call made inside a coroutine is part of that step.   *)
(* The one blocking call whose duration depends on the environment without *)
(* bound, the read of the next line of the follow-mode log stream in the   *)
(* for loop of _stream_logs, is a state of its own (log_task = "waiting"): *)
(* while it lasts the event loop runs nothing else.                        *)
(***************************************************************************)
EXTENDS Integers, Sequences, FiniteSets, TLC

\* Bounds of the model.
NumContainers == 1      \* containers on the host in Spec
RegContainers == 2      \* containers on the host in SpecRegistry
RowContainers == 4      \* containers on the host in SpecRows
MetricContainers == 2   \* containers on the host in SpecMetrics
FilterContainers == 3   \* containers on the host in SpecFilter
MaxQueue == 1           \* key events buffered while the event loop is busy

None == 0               \* Python's None, for fields that hold a container id

Statuses == {"running", "exited", "paused"}

LifecycleKeys == {"r", "s", "t", "d"}
Keys == LifecycleKeys \cup {"l", "f", "q", "escape", "up", "down"}

\* The keys the model lets wait in the queue.  A handler reads the state only
\* when it runs, so a key that waited has the effect of the same key pressed
\* when the pump is next idle; the queue is kept for the two mode-switch
\* requests, whose time of arrival matters to what is asked of them.
QueuedKeys == {"l", "escape"}

VARIABLES
    \* ---- the container runtime (docker engine), external collaborator
    containers,         \* sequence of [id, status], in the order list() returns
    stats,              \* id -> what stats(stream=False) gives for the container
    \* ---- DockerTUI
    app,                \* "init" (constructed), "running" (mounted), "exited"
    show_all,           \* DockerTUI.show_all
    container_ids,      \* DockerTUI.container_ids: row index (from 0) -> id
    rows,               \* the DataTable's rows, in order
    cursor,             \* DataTable.cursor_row
    rollup,             \* what the StatsBar shows: [total, running, stopped, paused]
    main_display,       \* display of #main-container and #stats-bar
    current_logs_view,  \* None or the container id of the LogsView object
    in_logs_view,       \* DockerTUI.in_logs_view
    pc,                 \* where the App's message pump is inside a handler
    queue,              \* key events posted to the App and not yet handled
    \* ---- LogsView (the object current_logs_view refers to, or referred to last)
    running,            \* LogsView.running
    log_task,           \* LogsView.log_task
    stats_task,         \* LogsView.stats_task
    \* ---- what the latest step emitted
    out

rtVars == <<containers, stats>>
regVars == <<show_all, container_ids, rows, cursor, rollup>>
sessVars == <<main_display, current_logs_view, in_logs_view, pc>>
viewVars == <<running, log_task, stats_task>>
vars == <<containers, stats, app, show_all, container_ids, rows, cursor, rollup,
          main_display, current_logs_view, in_logs_view, pc, queue,
          running, log_task, stats_task, out>>

----------------------------------------------------------------------------
\* Helpers

EmptyMap == [i \in {} |-> None]

Ids(cs) == {cs[i].id : i \in 1..Len(cs)}

Count(seq, s) == Cardinality({i \in 1..Len(seq) : seq[i].status = s})

Present(id) == id \in Ids(containers)

\* The status the engine reports for a container, "gone" for one it does not have.
StatusOf(id) ==
    IF Present(id)
    THEN (CHOOSE c \in {containers[i] : i \in 1..Len(containers)} : c.id = id).status
    ELSE "gone"

\* What a step emits: the key whose handler it started ("none" for a step that
\* is no key handler), the id a runtime lifecycle call was issued on, the kind
\* of notice shown, whether refresh_data ran, the line written to the logs
\* panel of the detail view, and what the stats widget of the detail view was
\* updated with (its kind, and the CPU figure in tenths when it is a reading).
Quiet ==
    [key |-> "none", target |-> None, notice |-> "none", refreshed |-> FALSE,
     line |-> "none", stats |-> "none", cpu |-> <<>>]

Handled(k) == [Quiet EXCEPT !.key = k]

\* asyncio.Task states.  "none" is the field's initial None; "pending" is a task
\* created and not yet run; "waiting" is _stream_logs inside next(log_stream);
\* "sleeping" is a task suspended in asyncio.sleep; "cancelling" is a task
\* whose cancel() was called and that has not been resumed since; "done" is a
\* task whose coroutine returned, "failed" one whose coroutine raised.
TaskStates ==
    {"none", "pending", "waiting", "sleeping", "cancelling", "done", "failed", "cancelled"}

\* The event loop is free to run a callback or resume a coroutine.
LoopFree == app = "running" /\ log_task # "waiting"

----------------------------------------------------------------------------
\* Metrics shown in the table (refresh_data, lines 404-428)

\* n / d rounded to the nearest integer, ties to even, for d > 0: what the
\* format specs .1f and .0f do to the value scaled by ten or by one.
RoundDiv(n, d) ==
    LET q == n \div d
        r == n % d
    IN  IF 2 * r < d THEN q
        ELSE IF 2 * r > d THEN q + 1
        ELSE IF q % 2 = 0 THEN q ELSE q + 1

\* A sample of stats(stream=False): whether the call returned at all, the
\* cumulative counters of the current and the previous reading, the number of
\* per-cpu entries (1 when the key is absent) and the memory usage in bytes
\* (has_usage is FALSE when the key is absent).
Sample(total, pretotal, system, presystem, percpu, has_usage, usage) ==
    [ok |-> TRUE, total |-> total, pretotal |-> pretotal, system |-> system,
     presystem |-> presystem, percpu |-> percpu, has_usage |-> has_usage,
     usage |-> usage]

SampleError == [ok |-> FALSE]

DefaultSample == Sample(30, 10, 200, 100, 2, TRUE, 3 * 1024 * 1024)

\* Readings whose deltas are not both positive: the system counter did not
\* advance, the container's counter did not advance, the container's counter
\* went back (a restart between the two readings).
ZeroSystemSample == Sample(30, 10, 100, 100, 2, TRUE, 3 * 1024 * 1024)
ZeroCpuSample == Sample(10, 10, 200, 100, 2, TRUE, 3 * 1024 * 1024)
NegativeCpuSample == Sample(5, 10, 200, 100, 2, TRUE, 3 * 1024 * 1024)

\* What the stats call of a container gives in SpecMetrics.
Samples ==
    {DefaultSample, ZeroSystemSample, ZeroCpuSample, NegativeCpuSample, SampleError}

\* A table cell: the placeholder "-" or a value.
Dash == <<>>

\* The CPU % cell: "-" or the percentage in tenths, as .1f prints it.
CpuCell(s) ==
    IF ~s.ok THEN Dash
    ELSE LET cpu_delta == s.total - s.pretotal
             system_delta == s.system - s.presystem
         IN  IF system_delta > 0
             THEN <<RoundDiv(cpu_delta * s.percpu * 1000, system_delta)>>
             ELSE Dash

\* The CPU figure of the detail view (_update_stats, lines 146-155), in tenths
\* as .1f prints it: 0.0 unless both deltas are positive.
DetailCpu(s) ==
    LET cpu_delta == s.total - s.pretotal
        system_delta == s.system - s.presystem
    IN  IF system_delta > 0 /\ cpu_delta > 0
        THEN <<RoundDiv(cpu_delta * s.percpu * 1000, system_delta)>>
        ELSE <<0>>

\* The MEM cell: "-" or <<unit, value>>, the value in tenths for "G".  The
\* cell keeps "-" when the sample has no usage key (the KeyError of line 422
\* is swallowed at line 427).
MemCell(s) ==
    IF ~s.ok THEN Dash
    ELSE IF ~s.has_usage THEN Dash
    ELSE IF s.usage > 1024 * 1024 * 1024
         THEN <<"G", 10 * (s.usage \div (1024 * 1024 * 1024))
                     + RoundDiv(10 * ((s.usage % (1024 * 1024 * 1024)) \div 1024),
                                1024 * 1024)>>
         ELSE <<"M", RoundDiv(s.usage, 1024 * 1024)>>

\* The row the loop body of refresh_data builds for container c when the
\* stats call, if made, gives s.
RowWith(c, s) ==
    [id |-> c.id, status |-> c.status,
     cpu |-> IF c.status = "running" THEN CpuCell(s) ELSE Dash,
     mem |-> IF c.status = "running" THEN MemCell(s) ELSE Dash]

\* A loop body in which a sample that failed for any container of the host
\* spoils the metrics of the row being built.
Mut_RowOf(c) ==
    IF \A id \in DOMAIN stats : stats[id].ok
    THEN RowWith(c, stats[c.id])
    ELSE RowWith(c, SampleError)

\* One table row built by the loop body of refresh_data.
RowOf(c) == RowWith(c, stats[c.id])

----------------------------------------------------------------------------
\* refresh_data (lines 349-447)

\* A list call that ignores its all argument.
Mut_ListContainers(all) == containers

\* client.containers.list(all=...): without all, the engine leaves out the
\* stopped containers.
ListContainers(all) ==
    IF all THEN containers
    ELSE SelectSeq(containers, LAMBDA c : c.status # "exited")

\* Where a DockerException is raised inside refresh_data: nowhere, in the list
\* call (line 355), or in the body of the loop for the container at index k
\* (the image lookup of line 386), after line 366 and before add_row.
NoRaise == -1
ListRaises == -2
Raises(all) == {NoRaise, ListRaises} \cup (0 .. Len(ListContainers(all)) - 1)

Rollup(cs) ==
    [total |-> Len(cs), running |-> Count(cs, "running"),
     stopped |-> Count(cs, "exited"), paused |-> Count(cs, "paused")]

\* refresh_data without line 353: the entries of the old mapping beyond the
\* new list survive.
Mut_refresh_data(all, r) ==
    LET cs == ListContainers(all)
        n == Len(cs)
        added == IF r = NoRaise THEN n ELSE IF r = ListRaises THEN 0 ELSE r
        mapped == IF r = NoRaise THEN n ELSE IF r = ListRaises THEN 0 ELSE r + 1
    IN  /\ cursor' = 0
        /\ rows' = [i \in 1..added |-> RowOf(cs[i])]
        /\ container_ids' = [i \in (DOMAIN container_ids) \cup (0..(mapped - 1)) |->
                                IF i < mapped THEN cs[i + 1].id ELSE container_ids[i]]
        /\ rollup' = IF r = ListRaises THEN rollup ELSE Rollup(cs)

\* The effect of refresh_data on the table, the mapping and the stats bar.
refresh_data(all, r) ==
    LET cs == ListContainers(all)
        n == Len(cs)
        added == IF r = NoRaise THEN n ELSE IF r = ListRaises THEN 0 ELSE r
        mapped == IF r = NoRaise THEN n ELSE IF r = ListRaises THEN 0 ELSE r + 1
    IN  /\ cursor' = 0
        /\ rows' = [i \in 1..added |-> RowOf(cs[i])]
        /\ container_ids' = [i \in 0..(mapped - 1) |-> cs[i + 1].id]
        /\ rollup' = IF r = ListRaises THEN rollup ELSE Rollup(cs)

RefreshNotice(r) == IF r = NoRaise THEN "none" ELSE "error"

----------------------------------------------------------------------------
\* Initial state: the runtime with n running containers and the application
\* as DockerTUI.__init__ leaves it, before on_mount.

\* The application as DockerTUI.__init__ leaves it.
InitApp ==
    /\ app = "init"
    /\ show_all = TRUE
    /\ container_ids = EmptyMap
    /\ rows = <<>>
    /\ cursor = 0
    /\ rollup = Rollup(<<>>)
    /\ main_display = TRUE
    /\ current_logs_view = None
    /\ in_logs_view = FALSE
    /\ pc = "idle"
    /\ queue = <<>>
    /\ running = FALSE
    /\ log_task = "none"
    /\ stats_task = "none"
    /\ out = Quiet

InitWith(n) ==
    /\ containers = [i \in 1..n |-> [id |-> i, status |-> "running"]]
    /\ stats = [i \in 1..n |-> DefaultSample]
    /\ InitApp

Init == InitWith(NumContainers)

----------------------------------------------------------------------------
\* The container runtime changing on its own (other clients of the engine,
\* container processes exiting)

SetStatus(cs, id, s) ==
    [i \in 1..Len(cs) |-> IF cs[i].id = id THEN [cs[i] EXCEPT !.status = s] ELSE cs[i]]

Without(cs, id) == SelectSeq(cs, LAMBDA c : c.id # id)

\* A container's process ends.
EnvExit ==
    /\ app # "exited"
    /\ \E i \in 1..Len(containers) :
         /\ containers[i].status = "running"
         /\ containers' = SetStatus(containers, containers[i].id, "exited")
    /\ out' = Quiet
    /\ UNCHANGED <<stats, app, regVars, sessVars, queue, viewVars>>

\* Another client pauses or unpauses a container.
EnvPause ==
    /\ app # "exited"
    /\ \E i \in 1..Len(containers) :
         \/ /\ containers[i].status = "running"
            /\ containers' = SetStatus(containers, containers[i].id, "paused")
         \/ /\ containers[i].status = "paused"
            /\ containers' = SetStatus(containers, containers[i].id, "running")
    /\ out' = Quiet
    /\ UNCHANGED <<stats, app, regVars, sessVars, queue, viewVars>>

\* Another client removes a container.
EnvRemove ==
    /\ app # "exited"
    /\ \E i \in 1..Len(containers) :
         containers' = Without(containers, containers[i].id)
    /\ out' = Quiet
    /\ UNCHANGED <<stats, app, regVars, sessVars, queue, viewVars>>

----------------------------------------------------------------------------
\* DockerTUI.on_mount and the interval timer it sets (lines 334-347)

on_mount ==
    /\ app = "init"
    /\ app' = "running"
    /\ \E r \in Raises(show_all) :
         /\ refresh_data(show_all, r)
         /\ out' = [Quiet EXCEPT !.refreshed = TRUE, !.notice = RefreshNotice(r)]
    /\ UNCHANGED <<rtVars, show_all, sessVars, queue, viewVars>>

\* The timer's task calls refresh_data whenever the event loop gives it a turn.
TimerTick ==
    /\ LoopFree
    /\ \E r \in Raises(show_all) :
         /\ refresh_data(show_all, r)
         /\ out' = [Quiet EXCEPT !.refreshed = TRUE, !.notice = RefreshNotice(r)]
    /\ UNCHANGED <<rtVars, app, show_all, sessVars, queue, viewVars>>

----------------------------------------------------------------------------
\* Key events.  The terminal driver posts a key to the App's message queue at
\* any time; the App's message pump handles one event at a time, so a key is
\* taken only when no handler is suspended (pc = "idle") and the loop is free.
\* A key pressed when the pump is idle with nothing queued is taken at once.

Post ==
    /\ app = "running"
    /\ ~(pc = "idle" /\ LoopFree)
    /\ Len(queue) < MaxQueue
    /\ \E k \in QueuedKeys : queue' = Append(queue, k)
    /\ out' = Quiet
    /\ UNCHANGED <<rtVars, app, regVars, sessVars, viewVars>>

\* A pump that starts a key handler while another is suspended.
Mut_Take(k) ==
    /\ LoopFree
    /\ \/ queue = <<>> /\ queue' = queue
       \/ queue # <<>> /\ Head(queue) = k /\ queue' = Tail(queue)

Take(k) ==
    /\ pc = "idle"
    /\ LoopFree
    /\ \/ queue = <<>> /\ queue' = queue
       \/ queue # <<>> /\ Head(queue) = k /\ queue' = Tail(queue)

\* BINDINGS, line 311: "q" is a priority binding, checked before the key event
\* reaches on_key.
action_quit ==
    /\ Take("q")
    /\ app' = "exited"
    /\ out' = Handled("q")
    /\ UNCHANGED <<rtVars, regVars, sessVars, viewVars>>

\* The DataTable's own cursor bindings; a hidden table has no focus.
action_cursor ==
    /\ \E k \in {"up", "down"} :
         /\ Take(k)
         /\ cursor' = IF ~main_display THEN cursor
                      ELSE IF k = "down"
                      THEN (IF cursor + 1 < Len(rows) THEN cursor + 1 ELSE cursor)
                      ELSE (IF cursor > 0 THEN cursor - 1 ELSE cursor)
         /\ out' = Handled(k)
    /\ UNCHANGED <<rtVars, app, show_all, container_ids, rows, rollup, sessVars, viewVars>>

\* action_toggle_filter (lines 468-473)
action_toggle_filter ==
    /\ Take("f")
    /\ show_all' = ~show_all
    /\ \E r \in Raises(~show_all) :
         /\ refresh_data(~show_all, r)
         /\ out' = [Handled("f") EXCEPT !.refreshed = TRUE,
                                 !.notice = IF r = NoRaise THEN "info" ELSE "error"]
    /\ UNCHANGED <<rtVars, app, sessVars, viewVars>>

\* What the engine does on a successful lifecycle call.
Lifecycle(key, id) ==
    CASE key = "r" -> SetStatus(containers, id, "running")
      [] key = "s" -> SetStatus(containers, id, "exited")
      [] key = "t" -> SetStatus(containers, id, "running")
      [] key = "d" -> Without(containers, id)

\* Resolution by position in the engine's current list instead of by the id
\* the refresh recorded.
Mut_ResolveRow(row) ==
    IF row + 1 <= Len(containers) THEN containers[row + 1].id ELSE None

\* The container id an action resolves the cursor row to: container_ids[cursor_row],
\* None when the lookup raises KeyError.
ResolveRow(row) == IF row \in DOMAIN container_ids THEN container_ids[row] ELSE None

\* A lifecycle handler that ends with a call of refresh_data.
Mut_after_lifecycle ==
    /\ show_all' = show_all
    /\ \E r \in Raises(show_all) : refresh_data(show_all, r)

\* What a lifecycle handler does after the runtime call and the notice: nothing;
\* the table, the mapping, the stats bar and the filter are left as they are.
after_lifecycle == UNCHANGED regVars

\* The common body of action_restart_container, action_stop_container,
\* action_start_container and action_remove_container (lines 475-518), which
\* differ in the runtime call and the notice.  cursor_row is never negative.
lifecycle_action(key) ==
    /\ Take(key)
    /\ LET id == ResolveRow(cursor)
       IN  IF id = None \/ ~Present(id)
           THEN \* KeyError, or NotFound from client.containers.get
                /\ out' = [Handled(key) EXCEPT !.notice = "error"]
                /\ UNCHANGED containers
           ELSE \/ /\ containers' = Lifecycle(key, id)
                   /\ out' = [Handled(key) EXCEPT !.target = id,
                                !.notice = IF key = "d" THEN "warning" ELSE "info"]
                \/ \* the engine refuses the call
                   /\ out' = [Handled(key) EXCEPT !.target = id, !.notice = "error"]
                   /\ UNCHANGED containers
    /\ after_lifecycle
    /\ UNCHANGED <<stats, app, sessVars, viewVars>>

action_restart_container == lifecycle_action("r")

action_stop_container == lifecycle_action("s")

action_start_container == lifecycle_action("t")

action_remove_container == lifecycle_action("d")

----------------------------------------------------------------------------
\* Opening the detail view: action_logs, _show_logs_view, LogsView.on_mount

\* action_logs up to its first await (lines 520-546).  _show_logs_view hides
\* the list, constructs the LogsView (LogsView.__init__, lines 65-71) and
\* awaits its mounting; an exception of mount is caught at line 533.
\* action_logs without its guard.
Mut_AlreadyInLogsView == FALSE

\* The guard of lines 523-524: the request is dropped in the logs view.
AlreadyInLogsView == in_logs_view

action_logs ==
    /\ Take("l")
    /\ LET id == ResolveRow(cursor)
       IN  IF AlreadyInLogsView
           THEN /\ out' = Handled("l")
                /\ UNCHANGED <<sessVars, viewVars>>
           ELSE IF id = None \/ ~Present(id)
           THEN /\ out' = [Handled("l") EXCEPT !.notice = "error"]
                /\ UNCHANGED <<sessVars, viewVars>>
           ELSE /\ main_display' = FALSE
                /\ current_logs_view' = id
                /\ running' = FALSE
                /\ log_task' = "none"
                /\ stats_task' = "none"
                /\ UNCHANGED in_logs_view
                /\ \/ pc' = "mounting" /\ out' = Handled("l")
                   \/ pc' = "idle" /\ out' = [Handled("l") EXCEPT !.notice = "error"]
    /\ UNCHANGED <<rtVars, app, regVars>>

\* LogsView.on_mount (lines 83-93), run by the view's own message pump while
\* _show_logs_view awaits the mount.
LogsView_on_mount ==
    /\ pc = "mounting"
    /\ LoopFree
    /\ running' = TRUE
    /\ log_task' = "pending"
    /\ stats_task' = "pending"
    /\ pc' = "mounted"
    /\ out' = Quiet
    /\ UNCHANGED <<rtVars, app, regVars, main_display, current_logs_view,
                   in_logs_view, queue>>

\* _show_logs_view resumed after the mount (line 549).
show_logs_view_resume ==
    /\ pc = "mounted"
    /\ LoopFree
    /\ in_logs_view' = TRUE
    /\ pc' = "idle"
    /\ out' = Quiet
    /\ UNCHANGED <<rtVars, app, regVars, main_display, current_logs_view,
                   queue, viewVars>>

----------------------------------------------------------------------------
\* Leaving the detail view: on_key, _hide_logs_view, LogsView.cleanup

\* The test of lines 201 and 208 without its second half.
Mut_Live(task) == task # "none"

\* self.log_task and not self.log_task.done() (lines 201, 208).
Live(task) == task \notin {"none", "done", "failed", "cancelled"}

\* cleanup that goes on to the removal of the view without cancelling and
\* awaiting the stats task.
Mut_cleanup_stats == stats_task' = stats_task /\ pc' = "removing"

\* cleanup from line 208 on: cancel the stats task and await it, or, with
\* nothing to await, go on to the removal of the view (line 558).
cleanup_stats ==
    IF Live(stats_task)
    THEN stats_task' = "cancelling" /\ pc' = "cleanup_stats"
    ELSE stats_task' = stats_task /\ pc' = "removing"

\* _hide_logs_view without the refresh_data call of line 569.
Mut_hide_logs_view_finish(k) ==
    /\ main_display' = TRUE
    /\ in_logs_view' = FALSE
    /\ pc' = "idle"
    /\ out' = Handled(k)
    /\ UNCHANGED <<container_ids, rows, cursor, rollup>>

\* LogsView.cleanup up to its first await or, with nothing to await, to its
\* return (lines 199-208).
cleanup_start ==
    /\ running' = FALSE
    /\ IF Live(log_task)
       THEN /\ log_task' = "cancelling"
            /\ pc' = "cleanup_log"
            /\ UNCHANGED stats_task
       ELSE /\ UNCHANGED log_task
            /\ cleanup_stats

\* _hide_logs_view from line 561 on: show the list, flip the state, refresh.
hide_logs_view_finish(k) ==
    /\ main_display' = TRUE
    /\ in_logs_view' = FALSE
    /\ pc' = "idle"
    /\ \E r \in Raises(show_all) :
         /\ refresh_data(show_all, r)
         /\ out' = [Handled(k) EXCEPT !.refreshed = TRUE, !.notice = RefreshNotice(r)]

\* on_key (lines 571-577) for a key that is not a priority binding.  In the
\* logs view "escape" starts _hide_logs_view, which runs up to its first
\* await; otherwise the key has no handler.
on_key ==
    /\ Take("escape")
    /\ IF ~in_logs_view
       THEN /\ out' = Handled("escape")
            /\ UNCHANGED <<regVars, sessVars, viewVars>>
       ELSE IF current_logs_view = None
       THEN /\ hide_logs_view_finish("escape")
            /\ UNCHANGED <<show_all, current_logs_view, viewVars>>
       ELSE /\ cleanup_start
            /\ out' = Handled("escape")
            /\ UNCHANGED <<regVars, main_display, current_logs_view, in_logs_view>>
    /\ UNCHANGED <<rtVars, app>>

\* cleanup resumed by the end of the log task (lines 204-208).
cleanup_resume_log ==
    /\ pc = "cleanup_log"
    /\ LoopFree
    /\ ~Live(log_task)
    /\ cleanup_stats
    /\ out' = Quiet
    /\ UNCHANGED <<rtVars, app, regVars, main_display, current_logs_view,
                   in_logs_view, queue, running, log_task>>

\* cleanup called again on a LogsView whose cleanup has returned, before the
\* view is removed.
cleanup_again ==
    /\ pc = "removing"
    /\ LoopFree
    /\ cleanup_start
    /\ out' = Quiet
    /\ UNCHANGED <<rtVars, app, regVars, main_display, current_logs_view,
                   in_logs_view, queue>>

\* cleanup resumed by the end of the stats task (lines 211-213).
cleanup_resume_stats ==
    /\ pc = "cleanup_stats"
    /\ LoopFree
    /\ ~Live(stats_task)
    /\ pc' = "removing"
    /\ out' = Quiet
    /\ UNCHANGED <<rtVars, app, regVars, main_display, current_logs_view,
                   in_logs_view, queue, viewVars>>

\* _hide_logs_view resumed after the removal of the view (lines 559-569).
hide_logs_view_resume ==
    /\ pc = "removing"
    /\ LoopFree
    /\ current_logs_view' = None
    /\ hide_logs_view_finish("none")
    /\ UNCHANGED <<rtVars, app, show_all, queue, viewVars>>

----------------------------------------------------------------------------
\* The two tasks of a LogsView

\* A log task that starts over after the failure.
Mut_AfterLogError == "pending"

\* The state of the log task after the handler of lines 124-125 has written
\* the error line: the coroutine returns.
AfterLogError == "done"

\* _stream_logs from its start to the first read of the follow-mode stream
\* (lines 97-113).  get raises for a container that is gone; get and the two
\* logs calls can raise for one that exists.
stream_logs_start ==
    /\ log_task = "pending"
    /\ LoopFree
    /\ IF ~Present(current_logs_view)
       THEN log_task' = AfterLogError /\ out' = [Quiet EXCEPT !.line = "error"]
       ELSE \/ log_task' = "waiting" /\ out' = [Quiet EXCEPT !.line = "log"]
            \/ log_task' = AfterLogError /\ out' = [Quiet EXCEPT !.line = "error"]
    /\ UNCHANGED <<rtVars, app, regVars, sessVars, queue, running, stats_task>>

\* The stream delivers a line: the body of the for loop (lines 114-122).
stream_logs_line ==
    /\ log_task = "waiting"
    /\ app = "running"
    /\ IF ~running
       THEN log_task' = "done" /\ out' = Quiet
       ELSE log_task' = "sleeping" /\ out' = [Quiet EXCEPT !.line = "log"]
    /\ UNCHANGED <<rtVars, app, regVars, sessVars, queue, running, stats_task>>

\* The stream ends (the container is not running any more): the for loop ends.
stream_logs_end ==
    /\ log_task = "waiting"
    /\ app = "running"
    /\ StatusOf(current_logs_view) \in {"gone", "exited"}
    /\ log_task' = "done"
    /\ out' = Quiet
    /\ UNCHANGED <<rtVars, app, regVars, sessVars, queue, running, stats_task>>

\* asyncio.sleep(0.01) is over: the loop reads the stream again (line 113).
stream_logs_wake ==
    /\ log_task = "sleeping"
    /\ LoopFree
    /\ log_task' = "waiting"
    /\ out' = Quiet
    /\ UNCHANGED <<rtVars, app, regVars, sessVars, queue, running, stats_task>>

\* A cancelled task is resumed with CancelledError, which neither coroutine
\* catches (except Exception does not).
log_task_cancelled ==
    /\ log_task = "cancelling"
    /\ LoopFree
    /\ log_task' = "cancelled"
    /\ out' = Quiet
    /\ UNCHANGED <<rtVars, app, regVars, sessVars, queue, running, stats_task>>

\* An iteration that raised ends at the handler of lines 187-192 and at the
\* sleep of line 195 like any other; in the mutant it ends the task.
Mut_AfterIteration(failed) == IF failed THEN "done" ELSE "sleeping"

\* The state of the stats task after one iteration of its loop.
AfterIteration(failed) == "sleeping"

\* One iteration of _update_stats, from the loop test to the next sleep
\* (lines 129-195).  Each of the runtime calls (get, reload, stats) can raise;
\* get raises for a container that is gone, stats for one the engine cannot
\* sample.
update_stats ==
    /\ stats_task \in {"pending", "sleeping"}
    /\ LoopFree
    /\ IF ~running
       THEN stats_task' = "done" /\ out' = Quiet
       ELSE \E raised \in BOOLEAN :
              LET id == current_logs_view
                  failed == \/ raised
                            \/ ~Present(id)
                            \/ StatusOf(id) = "running" /\ ~stats[id].ok
              IN  /\ stats_task' = AfterIteration(failed)
                  /\ out' = IF failed
                            THEN [Quiet EXCEPT !.stats = "error"]
                            ELSE IF StatusOf(id) # "running"
                            THEN [Quiet EXCEPT !.stats = "status"]
                            ELSE [Quiet EXCEPT !.stats = "reading",
                                               !.cpu = DetailCpu(stats[id])]
    /\ UNCHANGED <<rtVars, app, regVars, sessVars, queue, running, log_task>>

stats_task_cancelled ==
    /\ stats_task = "cancelling"
    /\ LoopFree
    /\ stats_task' = "cancelled"
    /\ out' = Quiet
    /\ UNCHANGED <<rtVars, app, regVars, sessVars, queue, running, log_task>>

----------------------------------------------------------------------------
\* The application

Next ==
    \/ on_mount
    \/ TimerTick
    \/ Post
    \/ action_quit
    \/ action_cursor
    \/ action_toggle_filter
    \/ action_restart_container
    \/ action_stop_container
    \/ action_start_container
    \/ action_remove_container
    \/ action_logs
    \/ on_key
    \/ LogsView_on_mount
    \/ show_logs_view_resume
    \/ cleanup_resume_log
    \/ cleanup_resume_stats
    \/ hide_logs_view_resume
    \/ stream_logs_start
    \/ stream_logs_line
    \/ stream_logs_end
    \/ stream_logs_wake
    \/ log_task_cancelled
    \/ update_stats
    \/ stats_task_cancelled
    \/ EnvExit
    \/ EnvRemove

Spec == Init /\ [][Next]_vars

\* The list view alone, on a host with more containers and with paused ones:
\* the handlers that read or rebuild the table and the mapping.
InitRegistry == InitWith(RegContainers)

NextRegistry ==
    \/ on_mount
    \/ TimerTick
    \/ action_cursor
    \/ action_toggle_filter
    \/ action_restart_container
    \/ action_stop_container
    \/ action_start_container
    \/ action_remove_container
    \/ EnvExit
    \/ EnvPause
    \/ EnvRemove

SpecRegistry == InitRegistry /\ [][NextRegistry]_vars

\* Removals on a host with enough containers for a row to be taken over.
InitRows == InitWith(RowContainers)

NextRows ==
    \/ on_mount
    \/ TimerTick
    \/ action_cursor
    \/ action_remove_container
    \/ EnvRemove

SpecRows == InitRows /\ [][NextRows]_vars

\* The metrics of the list view and of the detail view, on a host whose
\* containers run or have exited and give any of the readings of Samples.
InitMetrics ==
    /\ containers \in {[i \in 1..MetricContainers |-> [id |-> i, status |-> st[i]]] :
                          st \in [1..MetricContainers -> {"running", "exited"}]}
    /\ stats \in [1..MetricContainers -> Samples]
    /\ InitApp

NextMetrics ==
    \/ on_mount
    \/ TimerTick
    \/ action_cursor
    \/ action_logs
    \/ LogsView_on_mount
    \/ show_logs_view_resume
    \/ update_stats

SpecMetrics == InitMetrics /\ [][NextMetrics]_vars

\* The filter of the list view, on a host whose containers are in any status.
InitFilter ==
    /\ containers \in {[i \in 1..FilterContainers |-> [id |-> i, status |-> st[i]]] :
                          st \in [1..FilterContainers -> Statuses]}
    /\ stats = [i \in 1..FilterContainers |-> DefaultSample]
    /\ InitApp

NextFilter ==
    \/ on_mount
    \/ TimerTick
    \/ action_cursor
    \/ action_toggle_filter

SpecFilter == InitFilter /\ [][NextFilter]_vars

\* LogsView.cleanup on a mounted detail view whose two tasks are in any of the
\* states a task can be in when cleanup is called: not created, created and
\* not yet run, suspended in a sleep, returned, ended by an exception.
DrainInputs == {"none", "pending", "sleeping", "done", "failed"}

InitDrain ==
    /\ containers = <<[id |-> 1, status |-> "running"]>>
    /\ stats = <<DefaultSample>>
    /\ app = "running"
    /\ show_all = TRUE
    /\ container_ids = [i \in {0} |-> 1]
    /\ rows = <<RowWith([id |-> 1, status |-> "running"], DefaultSample)>>
    /\ cursor = 0
    /\ rollup = Rollup(<<[id |-> 1, status |-> "running"]>>)
    /\ main_display = FALSE
    /\ current_logs_view = 1
    /\ in_logs_view = TRUE
    /\ pc = "idle"
    /\ queue = <<>>
    /\ running \in BOOLEAN
    /\ log_task \in DrainInputs
    /\ stats_task \in DrainInputs
    /\ out = Quiet

NextDrain ==
    \/ on_key
    \/ cleanup_resume_log
    \/ cleanup_resume_stats
    \/ cleanup_again
    \/ hide_logs_view_resume
    \/ log_task_cancelled
    \/ stats_task_cancelled

SpecDrain == InitDrain /\ [][NextDrain]_vars

\* Scheduling.  The event loop runs every callback and coroutine that is ready,
\* and the message pump handles every key event in its queue; what the
\* environment does (the user pressing a key, the log stream delivering a line
\* or ending, the runtime changing) carries no fairness.
Dispatch ==
    /\ queue # <<>>
    /\ \/ action_quit
       \/ action_cursor
       \/ action_toggle_filter
       \/ action_restart_container
       \/ action_stop_container
       \/ action_start_container
       \/ action_remove_container
       \/ action_logs
       \/ on_key

Fairness ==
    /\ WF_vars(on_mount)
    /\ WF_vars(TimerTick)
    /\ WF_vars(Dispatch)
    /\ WF_vars(LogsView_on_mount)
    /\ WF_vars(show_logs_view_resume)
    /\ WF_vars(cleanup_resume_log)
    /\ WF_vars(cleanup_resume_stats)
    /\ WF_vars(hide_logs_view_resume)
    /\ WF_vars(stream_logs_start)
    /\ WF_vars(stream_logs_wake)
    /\ WF_vars(log_task_cancelled)
    /\ WF_vars(update_stats)
    /\ WF_vars(stats_task_cancelled)

FairSpec == Spec /\ Fairness

----------------------------------------------------------------------------
\* The values the variables take.
TypeOK ==
    /\ app \in {"init", "running", "exited"}
    /\ show_all \in BOOLEAN
    /\ in_logs_view \in BOOLEAN
    /\ main_display \in BOOLEAN
    /\ running \in BOOLEAN
    /\ pc \in {"idle", "mounting", "mounted", "cleanup_log", "cleanup_stats", "removing"}
    /\ log_task \in TaskStates
    /\ stats_task \in TaskStates \ {"waiting"}
    /\ current_logs_view \in {None} \cup DOMAIN stats
    /\ Len(queue) <= MaxQueue
    /\ \A i \in 1..Len(queue) : queue[i] \in QueuedKeys
    /\ \A i \in 1..Len(containers) : containers[i].status \in Statuses
    /\ cursor \in 0 .. (IF Len(rows) = 0 THEN 0 ELSE Len(rows) - 1)
    /\ DOMAIN container_ids \in {0 .. (Len(rows) - 1), 0 .. Len(rows)}
    /\ out.key \in Keys \cup {"none"}

\* Session states, as the claims name them

\* LIST: no handler suspended, the list is the active surface.
InList == pc = "idle" /\ ~in_logs_view

\* DETAIL: no handler suspended, the detail view is the active surface.
InDetail == pc = "idle" /\ in_logs_view

TasksTerminated == ~Live(log_task) /\ ~Live(stats_task)

----------------------------------------------------------------------------
\* C1.  Teardown join guarantee: whenever the state is LIST (in_logs_view is
\* False and no handler is suspended), in particular after _hide_logs_view has
\* returned, neither the log task nor the stats task of the last LogsView can
\* take a step any more: each is done or cancelled (or was never created).
C1_TeardownJoin == InList => TasksTerminated

\* A detail session was closed while both of its tasks were still alive, and
\* both were cancelled and joined.
C1_Witness ==
    /\ InList
    /\ current_logs_view = None
    /\ log_task = "cancelled"
    /\ stats_task = "cancelled"

\* C2.  Session re-entrancy: an open-detail request handled while a detail
\* session exists (in_logs_view is True, or a task of the LogsView is alive)
\* creates no LogsView and changes nothing of the session, the view or the
\* table; and a LogsView is constructed only by a request handled in LIST
\* with no task alive, so that two sessions never exist together.  A request
\* that arrives while the first is mounting waits in the queue: no key handler
\* starts while a handler is suspended.
C2_SessionReentrancy ==
    [][ /\ (out'.key = "l" /\ (in_logs_view \/ ~TasksTerminated))
            => UNCHANGED <<sessVars, viewVars, regVars, rtVars>>
        /\ (current_logs_view' # current_logs_view /\ current_logs_view' # None)
            => (out'.key = "l" /\ InList /\ TasksTerminated)
        /\ pc # "idle" => out'.key = "none"
      ]_vars

\* The state after a further open-detail request was handled with the session
\* open and both of its tasks alive.
C2_Witness ==
    /\ out.key = "l"
    /\ in_logs_view
    /\ current_logs_view # None
    /\ Live(log_task)
    /\ Live(stats_task)

\* An open-detail request that arrived while the first one is mounting.
C2_ArrivedWhileMounting == pc \in {"mounting", "mounted"} /\ queue = <<"l">>

\* C3.  A lifecycle key (start, stop, restart, remove) handled while the detail
\* view is active (in_logs_view is True) issues no runtime lifecycle call.
C3_LifecycleGated ==
    (out.key \in LifecycleKeys /\ in_logs_view) => out.target = None

\* C4.  A toggle-filter request handled while the detail view is active leaves
\* show_all unchanged and runs no refresh.
C4_FilterGated ==
    [][ (out'.key = "f" /\ in_logs_view)
            => (show_all' = show_all /\ ~out'.refreshed) ]_vars

RefreshAfterRow2Removed ==
    /\ out'.refreshed
    /\ 2 \in DOMAIN container_ids
    /\ container_ids[2] \notin Ids(containers)

\* C6 as stated.  Row resolution staleness: after the container listed at row
\* 2 has been removed and a fresh refresh has run, resolving row 2 fails.
C6_Row2Fails ==
    [][ RefreshAfterRow2Removed => 2 \notin DOMAIN container_ids' ]_vars

\* C6 as amended.  After the container listed at row 2 has been removed and a
\* fresh refresh has run, no row resolves to the removed container; row 2
\* resolves to the container the fresh list call returned third, if the
\* refresh got that far, and fails otherwise.
C6_Row2Fresh ==
    [][ RefreshAfterRow2Removed =>
          /\ \A i \in DOMAIN container_ids' : container_ids'[i] # container_ids[2]
          /\ 2 \in DOMAIN container_ids' =>
               /\ Len(ListContainers(show_all')) >= 3
               /\ container_ids'[2] = ListContainers(show_all')[3].id
               /\ container_ids'[2] \in Ids(containers)
          /\ (Len(ListContainers(show_all')) < 3) => 2 \notin DOMAIN container_ids'
      ]_vars

\* The container of row 2 was removed, and after the fresh refresh row 2
\* resolves to the container that was listed after it.
C6_Witness ==
    /\ out.refreshed
    /\ 3 \notin Ids(containers)
    /\ 2 \in DOMAIN container_ids
    /\ container_ids[2] = 4
    /\ Len(rows) = 3

\* What a refresh that ran to its end leaves in the table and in the mapping.
NewRows(all) == [i \in 1..Len(ListContainers(all)) |-> RowOf(ListContainers(all)[i])]
NewMapping(all) == [i \in 0..(Len(ListContainers(all)) - 1) |-> ListContainers(all)[i + 1].id]

\* C7.  Refresh atomicity: after every refresh_data call the table rows and
\* the mapping are entirely those of before the call or entirely those of the
\* new list call, and the keys of the mapping are the rows of the table.
C7_RefreshAtomic ==
    [][ out'.refreshed =>
          /\ \/ rows' = rows /\ container_ids' = container_ids
             \/ rows' = NewRows(show_all') /\ container_ids' = NewMapping(show_all')
          /\ DOMAIN container_ids' = 0 .. (Len(rows') - 1)
      ]_vars

\* C8.  Rollup consistency: in every state the counts the stats bar shows are
\* the counts over the rows in the table.
C8_RollupConsistent == rollup = Rollup(rows)

\* C9.  Neither activity blocks the control thread: while the log task waits
\* for the next line of the stream or sleeps, and while the stats task sleeps,
\* a timer tick can run, a key event in the queue can be handled when no
\* handler is suspended, and a suspended handler whose awaited task has ended
\* can resume.
C9_NeverBlocks ==
    (app = "running" /\ (log_task \in {"waiting", "sleeping"} \/ stats_task = "sleeping"))
        => /\ ENABLED TimerTick
           /\ (queue # <<>> /\ pc = "idle") => ENABLED Dispatch

\* A return-to-list request was made in the detail view: the key waits in the
\* queue or its handler is running.
ExitRequested ==
    /\ app = "running"
    /\ in_logs_view
    /\ \/ queue # <<>> /\ Head(queue) = "escape"
       \/ pc \in {"cleanup_log", "cleanup_stats", "removing"}

\* C10.  Exit liveness: a return-to-list request made in the detail view is
\* followed by the state LIST with both tasks terminated, whatever the log
\* stream does.
C10_ExitLiveness == ExitRequested ~> (InList /\ TasksTerminated)

----------------------------------------------------------------------------
\* C11.  In the detail view both return keys, "q" and "escape", start the same
\* teardown: the handler of either key leaves the application running and
\* begins LogsView.cleanup (running becomes False, the handler is suspended in
\* the teardown or has finished it); in particular "q" does not quit.
C11_ReturnKeys ==
    [][ (out'.key \in {"q", "escape"} /\ in_logs_view)
            => /\ app' = "running"
               /\ ~running'
               /\ pc' \in {"cleanup_log", "cleanup_stats", "removing"} \/ ~in_logs_view'
      ]_vars

\* C12.  Stats task resilience: an iteration of _update_stats in which a
\* runtime call raised (the container is gone, or the engine cannot sample it)
\* updates the stats widget with one error text and leaves the task at the
\* sleep before its next iteration; the task ends only with the stop flag set
\* (running False) or after cancel() was called on it.
C12_StatsResilient ==
    [][ /\ out'.stats = "error" => stats_task' = "sleeping"
        /\ (/\ out'.stats # "none"
            /\ \/ ~Present(current_logs_view)
               \/ /\ StatusOf(current_logs_view) = "running"
                  /\ ~stats[current_logs_view].ok)
            => out'.stats = "error"
        /\ (Live(stats_task) /\ ~Live(stats_task'))
            => (~running \/ stats_task = "cancelling")
      ]_vars

\* The stats task sleeps before its next iteration after one that failed on a
\* container that exists and runs (the stats call raised).
C12_Witness ==
    /\ out.stats = "error"
    /\ stats_task = "sleeping"
    /\ running
    /\ StatusOf(current_logs_view) = "running"

\* C13.  Partial-failure isolation in refresh: in a refresh in which no
\* DockerException was raised, every container the list call returned has its
\* row, in the order of the list, and its entry in the mapping; the row of a
\* running container whose stats call raised shows "-" for CPU and for memory;
\* and every row is the one built from its own container and its own reading
\* alone, whatever the stats calls of the other containers did.
C13_SampleIsolation ==
    [][ (out'.refreshed /\ out'.notice # "error") =>
          LET cs == ListContainers(show_all')
          IN  /\ Len(rows') = Len(cs)
              /\ DOMAIN container_ids' = 0 .. (Len(cs) - 1)
              /\ \A i \in 1..Len(cs) :
                   /\ rows'[i].id = cs[i].id
                   /\ container_ids'[i - 1] = cs[i].id
                   /\ rows'[i] = RowWith(cs[i], stats[cs[i].id])
                   /\ (cs[i].status = "running" /\ ~stats[cs[i].id].ok)
                        => (rows'[i].cpu = Dash /\ rows'[i].mem = Dash)
      ]_vars

\* A refresh listed two running containers; the stats call of the first
\* raised, and the second has its row with its reading.
C13_Witness ==
    /\ out.refreshed
    /\ Len(rows) = 2
    /\ rows[1].status = "running" /\ ~stats[rows[1].id].ok
    /\ rows[1].cpu = Dash /\ rows[1].mem = Dash
    /\ rows[2].status = "running" /\ stats[rows[2].id].ok
    /\ rows[2].cpu # Dash /\ rows[2].mem # Dash
    /\ DOMAIN container_ids = {0, 1}

\* A reading whose deltas are not both positive.
ZeroCase(s) == s.ok /\ (s.system - s.presystem <= 0 \/ s.total - s.pretotal <= 0)

\* C15.  CPU zero rule: for a reading with system delta <= 0 or cpu delta <= 0
\* the CPU figure is exactly 0.0, in the row the list view built for the
\* container and in the reading the detail view shows for it, and the figure
\* of the detail view is the figure the list view computes from the same
\* reading.
C15_CpuZeroRule ==
    /\ \A i \in 1..Len(rows) :
         (rows[i].status = "running" /\ ZeroCase(stats[rows[i].id]))
            => rows[i].cpu = <<0>>
    /\ out.stats = "reading" =>
         /\ ZeroCase(stats[current_logs_view]) => out.cpu = <<0>>
         /\ out.cpu = CpuCell(stats[current_logs_view])

\* The statuses of the containers of the host, in the order of the list call.
StatusList == [i \in 1..Len(containers) |-> containers[i].status]

\* C14.  Filter end to end: a toggle-filter request handled in the list view
\* flips show_all and runs refresh_data in the same step with the new value;
\* when that refresh raises no exception the table, the mapping and the stats
\* bar are those of the list call made with the new value.  With containers
\* (running, running, exited) and show_all toggled to False the table holds
\* the two running containers in the order of the list and the stats bar
\* shows total 2, running 2, stopped 0, paused 0.  After every refresh with
\* show_all False that raised no exception, total is the number of rows and
\* stopped is 0.
C14_FilterEndToEnd ==
    [][ /\ (out'.key = "f" /\ ~in_logs_view) =>
              /\ show_all' = ~show_all
              /\ out'.refreshed
              /\ out'.notice # "error" =>
                   /\ rows' = NewRows(show_all')
                   /\ container_ids' = NewMapping(show_all')
                   /\ rollup' = Rollup(ListContainers(show_all'))
                   /\ (~show_all' /\ StatusList = <<"running", "running", "exited">>) =>
                        /\ Len(rows') = 2
                        /\ rows'[1].id = containers[1].id
                        /\ rows'[2].id = containers[2].id
                        /\ rollup' = [total |-> 2, running |-> 2, stopped |-> 0, paused |-> 0]
        /\ (out'.refreshed /\ out'.notice # "error" /\ ~show_all') =>
              /\ rollup'.total = Len(rows')
              /\ rollup'.stopped = 0
              /\ \A i \in 1..Len(rows') : rows'[i].status # "exited"
      ]_vars

\* The filter was toggled to running only on a host with containers (running,
\* running, exited): two rows, the two running containers.
C14_Witness ==
    /\ out.key = "f"
    /\ out.notice = "info"
    /\ ~show_all
    /\ StatusList = <<"running", "running", "exited">>
    /\ Len(rows) = 2
    /\ rollup = [total |-> 2, running |-> 2, stopped |-> 0, paused |-> 0]

\* C16.  A lifecycle action does not touch the registry: the handler of a
\* start, stop, restart or remove key, whether its runtime call succeeded,
\* was refused or was never issued, runs no refresh and leaves the table rows,
\* the cursor, the stats bar, the mapping, show_all and the state of the
\* session and of its view as they were.
C16_LifecycleFrame ==
    [][ out'.key \in LifecycleKeys =>
          /\ ~out'.refreshed
          /\ UNCHANGED <<regVars, sessVars, viewVars>>
      ]_vars

\* A remove key was handled and the container is gone from the runtime, while
\* its row and its entry in the mapping are still there.
C16_Witness ==
    /\ out.key = "d"
    /\ out.target # None
    /\ ~Present(out.target)
    /\ \E i \in 1..Len(rows) : rows[i].id = out.target
    /\ \E i \in DOMAIN container_ids : container_ids[i] = out.target

\* C17.  The timer's refresh is tied to LIST: a refresh_data call that is not
\* part of a key handler nor the last step of _hide_logs_view is made only
\* with in_logs_view False and no handler suspended.
C17_TimerInList ==
    [][ (out'.refreshed /\ out'.key = "none" /\ pc # "removing")
            => (~in_logs_view /\ pc = "idle") ]_vars

\* The handler of _hide_logs_view is suspended in the teardown of the view.
InTeardown == pc \in {"cleanup_log", "cleanup_stats", "removing"}

\* C18.  No mode switch inside a teardown: while _hide_logs_view is suspended
\* no key handler starts; cleanup starts only from the detail view with no
\* handler suspended, and the view is discarded only at the end of that
\* teardown, so both happen once per session; a LogsView is constructed and
\* its tasks are created only with both tasks of the previous view terminated;
\* and a return-to-list request handled after the teardown changes nothing.
C18_NoSwitchInTeardown ==
    [][ /\ InTeardown => out'.key = "none"
        /\ (~InTeardown /\ pc' \in {"cleanup_log", "cleanup_stats", "removing"})
            => (out'.key = "escape" /\ pc = "idle" /\ in_logs_view /\ running)
        /\ (current_logs_view # None /\ current_logs_view' = None)
            => (pc = "removing" /\ pc' = "idle")
        /\ (current_logs_view' # current_logs_view /\ current_logs_view' # None)
            => (pc = "idle" /\ ~in_logs_view /\ TasksTerminated)
        /\ (\/ log_task # "pending" /\ log_task' = "pending"
            \/ stats_task # "pending" /\ stats_task' = "pending")
            => (pc = "mounting" /\ TasksTerminated)
        /\ (out'.key = "escape" /\ ~in_logs_view)
            => UNCHANGED <<regVars, sessVars, viewVars>>
      ]_vars

\* A mode-switch request arrived while the view is being torn down and waits.
C18_Witness ==
    /\ InTeardown
    /\ queue # <<>>
    /\ current_logs_view # None
    /\ in_logs_view

\* C19.  Order of the return to the list: a return-to-list request handled
\* with in_logs_view False changes nothing and runs no refresh.  Handled in the
\* detail view it starts cleanup and leaves the view, the state and the table
\* as they are; the view is discarded only after cleanup has returned with
\* both tasks terminated, and in that same step, with no await in between,
\* current_logs_view becomes None, the list is shown, in_logs_view becomes
\* False and refresh_data runs once; no key handler starts before that step.
C19_ExitOrder ==
    [][ /\ (out'.key = "escape" /\ ~in_logs_view)
            => (~out'.refreshed /\ UNCHANGED <<rtVars, regVars, sessVars, viewVars>>)
        /\ (out'.key = "escape" /\ in_logs_view /\ current_logs_view # None)
            => /\ ~running'
               /\ pc' \in {"cleanup_log", "cleanup_stats", "removing"}
               /\ ~out'.refreshed
               /\ UNCHANGED <<regVars, main_display, current_logs_view, in_logs_view>>
        /\ pc' = "removing" => (~Live(log_task') /\ ~Live(stats_task'))
        /\ (in_logs_view /\ (~in_logs_view' \/ current_logs_view' = None))
            => /\ pc = "removing"
               /\ TasksTerminated
               /\ current_logs_view' = None
               /\ main_display'
               /\ ~in_logs_view'
               /\ out'.refreshed
               /\ pc' = "idle"
        /\ InTeardown => out'.key = "none"
      ]_vars

\* The return to the list has just completed: the view is discarded, the list
\* is shown and the table was refreshed in the step that flipped the state.
C19_Witness ==
    /\ out.refreshed
    /\ out.key = "none"
    /\ pc = "idle"
    /\ ~in_logs_view
    /\ main_display
    /\ current_logs_view = None
    /\ ~running
    /\ log_task = "cancelled"
    /\ stats_task = "cancelled"
    /\ queue # <<>>

\* C20.  cleanup tolerates tasks that have ended and is idempotent: whatever
\* the states of the log task and of the stats task when cleanup is called
\* (not created, not yet run, suspended, returned, ended by an exception),
\* cleanup cancels and awaits only a task that has not ended, leaves a task
\* that has ended as it ended, awaits only a task it has cancelled, and returns
\* with running False and both tasks terminated; cleanup called again after
\* it has returned changes nothing.
C20_DrainTolerant ==
    [][ /\ (in_logs_view /\ log_task \in {"none", "done", "failed", "cancelled"})
            => log_task' = log_task
        /\ (in_logs_view /\ stats_task \in {"none", "done", "failed", "cancelled"})
            => stats_task' = stats_task
        /\ pc' = "cleanup_log" => log_task' \in {"cancelling", "cancelled"}
        /\ pc' = "cleanup_stats" => stats_task' \in {"cancelling", "cancelled"}
        /\ pc' = "removing"
            => /\ ~running'
               /\ log_task' \in {"none", "done", "failed", "cancelled"}
               /\ stats_task' \in {"none", "done", "failed", "cancelled"}
        /\ (pc = "removing" /\ pc' # "idle")
            => (pc' = "removing" /\ UNCHANGED <<rtVars, regVars, sessVars, viewVars>>)
      ]_vars

\* cleanup has returned on a view whose log task had ended by an exception and
\* whose stats task it cancelled.
C20_Witness ==
    /\ pc = "removing"
    /\ log_task = "failed"
    /\ stats_task = "cancelled"
    /\ ~running

\* C21.  Failure of the log task: when fetching or opening the log stream
\* raises, _stream_logs writes one error line and returns, and it is not
\* started again for this view; the step changes nothing of the session, of
\* the running flag or of the stats task, and in the detail view with no
\* handler suspended the stats task goes on (running is True and the task is
\* pending or asleep) with the log task ended.
C21_LogFailure ==
    [][ /\ out'.line = "error"
            => /\ log_task = "pending"
               /\ log_task' = "done"
               /\ UNCHANGED <<rtVars, regVars, sessVars, running, stats_task>>
        /\ (log_task = "done" /\ current_logs_view' = current_logs_view)
            => log_task' = "done"
        /\ (log_task' = "done" /\ in_logs_view' /\ pc' = "idle")
            => (running' /\ stats_task' \in {"pending", "sleeping"})
      ]_vars

\* The log task has ended with an error line on a container that is gone,
\* the detail view is open and the stats task is alive.
C21_Witness ==
    /\ out.line = "error"
    /\ log_task = "done"
    /\ ~Present(current_logs_view)
    /\ in_logs_view
    /\ pc = "idle"
    /\ running
    /\ Live(stats_task)

\* C22.  A failed open-detail leaves the session as it was: when the handler
\* of an open-detail request made in the list view ends with an error notice
\* (the row does not resolve, the container lookup raises, or the mount of the
\* view raises), then the list is shown, in_logs_view is False, no LogsView is
\* kept (current_logs_view is None) and no task is alive; and whenever no
\* handler is suspended, in_logs_view is True exactly when current_logs_view
\* is not None.
C22_FailedOpen ==
    [][ /\ (out'.key = "l" /\ ~in_logs_view /\ out'.notice = "error")
            => /\ pc' = "idle"
               /\ ~in_logs_view'
               /\ main_display'
               /\ current_logs_view' = None
               /\ ~Live(log_task') /\ ~Live(stats_task')
        /\ pc' = "idle" => (in_logs_view' <=> current_logs_view' # None)
      ]_vars

====
